---- MODULE Spec2Model ----
(***************************************************************************)
(* Model of package bitset (src/bitset.go): the three BitSet               *)
(* implementations Words, Bytes and Sparse, their Get/Set/Unset/SetBool    *)
(* methods and the Grow methods of the two slice-backed ones.              *)
(*                                                                         *)
(* A byte is a number in 0..255; an int, uint or uintptr is the sequence   *)
(* of its bytes, least significant first, so that the arithmetic keeps the *)
(* width of the build (32 or 64 bits).  Slices are sequences (Go index k   *)
(* is position k + 1) and the map of a Sparse is a function from its keys  *)
(* to its words.                                                           *)
(*                                                                         *)
(* One object of each implementation is driven by the same calls, as the   *)
(* tests do with standardBitsets and standardGrowers.  A call that panics  *)
(* leaves its object as it was and is recorded in last.                    *)
(***************************************************************************)
EXTENDS Integers, Sequences, FiniteSets, TLC

VARIABLES
    wordBits,   \* bits per machine word of the build: 32 or 64
    words,      \* the Words under test: a sequence of uintptr
    bytes,      \* the Bytes under test: a sequence of byte
    sparse,     \* the Sparse under test: a map from int to uintptr
    last,       \* the last call, its arguments and what each object answered
    pre,        \* the three objects as they were before the last call
    members,    \* the indexes Set and not Unset since, as a set of integers
    faulted,    \* TRUE once a call on the Words or the Bytes has panicked
    roundTrip   \* after Set(i) then Unset(i): the objects before that Set(i)

vars == <<wordBits, words, bytes, sparse, last, pre, members, faulted, roundTrip>>

----------------------------------------------------------------------------
(* Bounds of the model.                                                    *)

\* The highest bit index the calls use: the last bit of byte 7, which is in
\* the first 64-bit word and in the second 32-bit word.
TopIndex == 63

\* Indexes handed to Get/Set/Unset/SetBool: a negative one, two in the same
\* byte, and one in another byte.
Indexes == {-1, 0, 7, TopIndex}

\* Capacities handed to NewWords and NewBytes: none, one byte, two bytes.
NewSizes == {0, 8, 16}

\* Capacities handed to Grow, besides the largest int: one byte, and enough
\* for every index.
GrowSizes == {8, TopIndex + 1}

----------------------------------------------------------------------------
(* Constants of the package.                                               *)

wordModMask == wordBits - 1

wordShift == (128 + wordBits) \div 32

byteModMask == 7

byteShift == 3

----------------------------------------------------------------------------
(* Machine integers.  A byte is a number in 0..255.  An int, uint or       *)
(* uintptr is the sequence of its wordBits / 8 bytes, least significant    *)
(* byte first; a negative int is in two's complement form.                 *)

numBytes == wordBits \div (byteModMask + 1)

\* The k least significant bytes of the two's complement form of integer n.
RECURSIVE TwosComplement(_, _)
TwosComplement(n, k) ==
    IF k = 0 THEN <<>> ELSE <<n % 256>> \o TwosComplement(n \div 256, k - 1)

\* The int holding n; uint(i) of a negative i has the same bytes and so
\* stands for 2^wordBits + i.
IntBits(n) == TwosComplement(n, numBytes)

\* The largest int: every bit but the sign bit.
MaxInt == [k \in 1..numBytes |-> IF k = numBytes THEN 127 ELSE 255]

\* The number an unsigned integer below 2^24 stands for.
Val(x) == x[1] + 256 * x[2] + 65536 * x[3]

\* a & b, a | b and a &^ b on bytes.
RECURSIVE ByteAnd(_, _)
ByteAnd(a, b) ==
    IF a = 0 \/ b = 0 THEN 0
    ELSE (a % 2) * (b % 2) + 2 * ByteAnd(a \div 2, b \div 2)

ByteOr(a, b) == a + b - ByteAnd(a, b)

ByteAndNot(a, b) == a - ByteAnd(a, b)

\* x & y, x | y and x &^ y on words: byte by byte.
And(x, y) == [k \in 1..numBytes |-> ByteAnd(x[k], y[k])]

Or(x, y) == [k \in 1..numBytes |-> ByteOr(x[k], y[k])]

AndNot(x, y) == [k \in 1..numBytes |-> ByteAndNot(x[k], y[k])]

\* The word 0.
Zero == [k \in 1..numBytes |-> 0]

\* x >> n on an unsigned operand, n < 8: each byte takes the low bits of the
\* next one; zeros come in at the top.
Shr(x, n) ==
    [k \in 1..numBytes |->
        (x[k] \div 2^n)
            + (IF k < numBytes THEN (x[k + 1] % 2^n) * 2^(8 - n) ELSE 0)]

\* x >> n on a signed operand, n < 8: the sign bit is copied in at the top.
Sar(x, n) ==
    [k \in 1..numBytes |->
        (x[k] \div 2^n)
            + (IF k < numBytes THEN (x[k + 1] % 2^n) * 2^(8 - n)
               ELSE IF x[numBytes] >= 128 THEN 256 - 2^(8 - n) ELSE 0)]

\* 1 << n in a word: a shift by wordBits or more leaves 0.
WordBit(n) ==
    [k \in 1..numBytes |-> IF k = (n \div 8) + 1 THEN 2^(n % 8) ELSE 0]

\* 1 << n in a byte: a shift by 8 or more leaves 0.
ByteBit(n) == IF n < 8 THEN 2^n ELSE 0

\* x + y + carry from byte k up, wrapping around at wordBits bits.
RECURSIVE AddFrom(_, _, _, _)
AddFrom(x, y, k, carry) ==
    IF k > numBytes THEN <<>>
    ELSE <<(x[k] + y[k] + carry) % 256>>
             \o AddFrom(x, y, k + 1, (x[k] + y[k] + carry) \div 256)

Add(x, y) == AddFrom(x, y, 1, 0)

\* x - y, wrapping around: x + ^y + 1.
Sub(x, y) == AddFrom(x, [k \in 1..numBytes |-> 255 - y[k]], 1, 1)

IsNegative(x) == x[numBytes] >= 128

\* x < y for two ints: by sign, then by the most significant byte that
\* differs.
SignedLess(x, y) ==
    IF IsNegative(x) # IsNegative(y) THEN IsNegative(x)
    ELSE \E k \in 1..numBytes :
            /\ x[k] < y[k]
            /\ \A j \in (k + 1)..numBytes : x[j] = y[j]

\* The bounds check of an index expression a[idx] with len(a) = n: idx, read
\* as an unsigned number, must be below n.
InBounds(idx, n) == (\A k \in 4..numBytes : idx[k] = 0) /\ Val(idx) < n

\* make(Words, n): n zeroed words.  make panics on a negative n; no call of
\* the model asks for one.
MakeWords(n) == [k \in 1..Val(n) |-> Zero]

\* make(Bytes, n): n zeroed bytes.
MakeBytes(n) == [k \in 1..Val(n) |-> 0]

----------------------------------------------------------------------------
(* Words: a bitset backed by a word slice.                                 *)

\* The capacity rounded down: numBits>>wordShift.
NewWordsRoundedDown(numBits) == MakeWords(Sar(numBits, wordShift))

NewWords(numBits) ==
    MakeWords(Sar(Add(numBits, IntBits(wordModMask)), wordShift))

\* The index taken from the masked bits, so that it wraps into the first
\* word: (uint(i)&wordModMask)>>wordShift.
WordsIndexWrapped(i) == Shr(And(i, IntBits(wordModMask)), wordShift)

\* uint(i)>>wordShift
WordsIndex(i) == Shr(i, wordShift)

\* The shift count left unmasked: 1<<uint(i).
WordsMaskUnmasked(i) == WordBit(Val(i))

\* 1<<(uint(i)&wordModMask)
WordsMask(i) == WordBit(Val(And(i, IntBits(wordModMask))))

WordsGet(w, i) ==
    IF InBounds(WordsIndex(i), Len(w))
    THEN [panic |-> FALSE,
          val |-> And(w[Val(WordsIndex(i)) + 1], WordsMask(i)) # Zero]
    ELSE [panic |-> TRUE, val |-> FALSE]

WordsSet(w, i) ==
    IF InBounds(WordsIndex(i), Len(w))
    THEN [panic |-> FALSE,
          w |-> [w EXCEPT ![Val(WordsIndex(i)) + 1] = Or(@, WordsMask(i))]]
    ELSE [panic |-> TRUE, w |-> w]

WordsUnset(w, i) ==
    IF InBounds(WordsIndex(i), Len(w))
    THEN [panic |-> FALSE,
          w |-> [w EXCEPT ![Val(WordsIndex(i)) + 1] = AndNot(@, WordsMask(i))]]
    ELSE [panic |-> TRUE, w |-> w]

\* The return after w.Set(i) left out: w.Unset(i) runs after it.
WordsSetBoolFallingThrough(w, i, b) ==
    IF b THEN WordsUnset(WordsSet(w, i).w, i) ELSE WordsUnset(w, i)

WordsSetBool(w, i, b) == IF b THEN WordsSet(w, i) ELSE WordsUnset(w, i)

WordsGrow(w, numBits) ==
    LET targetLen == Sar(Add(numBits, IntBits(wordModMask)), wordShift)
        missing   == Sub(targetLen, IntBits(Len(w)))
    IN  IF SignedLess(Zero, missing) /\ ~SignedLess(targetLen, missing)
        THEN w \o MakeWords(missing)
        ELSE w

----------------------------------------------------------------------------
(* Bytes: a bitset backed by a byte slice.                                 *)

NewBytes(numBits) ==
    MakeBytes(Sar(Add(numBits, IntBits(byteModMask)), byteShift))

\* The word's shift in place of the byte's: uint(i)>>wordShift.
BytesIndexByWord(i) == Shr(i, wordShift)

\* uint(i)>>byteShift
BytesIndex(i) == Shr(i, byteShift)

\* The bits of a byte counted from the most significant one.
BytesMaskFromTop(i) == ByteBit(7 - Val(And(i, IntBits(byteModMask))))

\* 1<<(uint(i)&byteModMask)
BytesMask(i) == ByteBit(Val(And(i, IntBits(byteModMask))))

BytesGet(s, i) ==
    IF InBounds(BytesIndex(i), Len(s))
    THEN [panic |-> FALSE,
          val |-> ByteAnd(s[Val(BytesIndex(i)) + 1], BytesMask(i)) # 0]
    ELSE [panic |-> TRUE, val |-> FALSE]

BytesSet(s, i) ==
    IF InBounds(BytesIndex(i), Len(s))
    THEN [panic |-> FALSE,
          s |-> [s EXCEPT ![Val(BytesIndex(i)) + 1] = ByteOr(@, BytesMask(i))]]
    ELSE [panic |-> TRUE, s |-> s]

\* &= in place of &^=: keeps bit i and clears the rest of the byte.
BytesUnsetKeepingOnly(s, i) ==
    IF InBounds(BytesIndex(i), Len(s))
    THEN [panic |-> FALSE,
          s |-> [s EXCEPT ![Val(BytesIndex(i)) + 1] = ByteAnd(@, BytesMask(i))]]
    ELSE [panic |-> TRUE, s |-> s]

BytesUnset(s, i) ==
    IF InBounds(BytesIndex(i), Len(s))
    THEN [panic |-> FALSE,
          s |-> [s EXCEPT ![Val(BytesIndex(i)) + 1] = ByteAndNot(@, BytesMask(i))]]
    ELSE [panic |-> TRUE, s |-> s]

BytesSetBool(s, i, b) == IF b THEN BytesSet(s, i) ELSE BytesUnset(s, i)

\* The slice cut down to the target length when that is shorter.
BytesGrowCutting(s, numBits) ==
    LET targetLen == Sar(Add(numBits, IntBits(byteModMask)), byteShift)
        missing   == Sub(targetLen, IntBits(Len(s)))
    IN  IF SignedLess(Zero, missing) /\ ~SignedLess(targetLen, missing)
        THEN s \o MakeBytes(missing)
        ELSE IF IsNegative(targetLen) THEN s
        ELSE SubSeq(s, 1, Val(targetLen))

BytesGrow(s, numBits) ==
    LET targetLen == Sar(Add(numBits, IntBits(byteModMask)), byteShift)
        missing   == Sub(targetLen, IntBits(Len(s)))
    IN  IF SignedLess(Zero, missing) /\ ~SignedLess(targetLen, missing)
        THEN s \o MakeBytes(missing)
        ELSE s

----------------------------------------------------------------------------
(* Sparse: a bitset backed by a map from word index to word.               *)

\* make(Sparse)
MakeSparse == [k \in {} |-> Zero]

\* s[key] of a map: the zero value when the key is absent.
MapIndex(s, key) == IF key \in DOMAIN s THEN s[key] ELSE Zero

\* s[key] = word
MapAssign(s, key, word) ==
    [k \in DOMAIN s \cup {key} |-> IF k = key THEN word ELSE s[k]]

\* delete(s, key)
MapDelete(s, key) == [k \in DOMAIN s \ {key} |-> s[k]]

\* int(uint(i) >> wordShift): below 2^(wordBits - 1), so the same bytes.
SparseKey(i) == Shr(i, wordShift)

SparseGet(s, i) == And(MapIndex(s, SparseKey(i)), WordsMask(i)) # Zero

SparseSet(s, i) ==
    MapAssign(s, SparseKey(i), Or(MapIndex(s, SparseKey(i)), WordsMask(i)))

\* The word stored back even when it is 0: no delete.
SparseUnsetStoringZero(s, i) ==
    LET wordKey == SparseKey(i)
        word    == AndNot(MapIndex(s, wordKey), WordsMask(i))
    IN  IF wordKey \notin DOMAIN s THEN s ELSE MapAssign(s, wordKey, word)

\* The entry deleted whatever is left of the word.
SparseUnsetDeleting(s, i) == MapDelete(s, SparseKey(i))

SparseUnset(s, i) ==
    LET wordKey == SparseKey(i)
        word    == AndNot(MapIndex(s, wordKey), WordsMask(i))
    IN  IF wordKey \notin DOMAIN s THEN s
        ELSE IF word = Zero THEN MapDelete(s, wordKey)
        ELSE MapAssign(s, wordKey, word)

SparseSetBool(s, i, b) == IF b THEN SparseSet(s, i) ELSE SparseUnset(s, i)

----------------------------------------------------------------------------
(* The variant of the package with uint indexes.  Its Get, Set, Unset and  *)
(* SetBool are the ones above without the conversion uint(i): i is a uint  *)
(* already, with the bytes the int has.  NewWords, NewBytes and Grow differ *)
(* from the ones above: >> is taken on a uint, and Grow tests its missing  *)
(* count against 0 only.                                                   *)

\* make of a slice of n elements, n a uint, panics when n does not fit an
\* int.  No call of the model asks for a length between 2^24 and that.
MakePanics(n) == IsNegative(n)

UintNewWords(numBits) ==
    MakeWords(Shr(Add(numBits, IntBits(wordModMask)), wordShift))

UintNewBytes(numBits) ==
    MakeBytes(Shr(Add(numBits, IntBits(byteModMask)), byteShift))

UintWordsGrow(w, numBits) ==
    LET targetLen == Shr(Add(numBits, IntBits(wordModMask)), wordShift)
        missing   == Sub(targetLen, IntBits(Len(w)))
    IN  IF missing = Zero THEN [panic |-> FALSE, w |-> w]
        ELSE IF MakePanics(missing) THEN [panic |-> TRUE, w |-> w]
        ELSE [panic |-> FALSE, w |-> w \o MakeWords(missing)]

UintBytesGrow(s, numBits) ==
    LET targetLen == Shr(Add(numBits, IntBits(byteModMask)), byteShift)
        missing   == Sub(targetLen, IntBits(Len(s)))
    IN  IF missing = Zero THEN [panic |-> FALSE, s |-> s]
        ELSE IF MakePanics(missing) THEN [panic |-> TRUE, s |-> s]
        ELSE [panic |-> FALSE, s |-> s \o MakeBytes(missing)]

----------------------------------------------------------------------------
(* The calls.  Each is made on the Words, the Bytes and the Sparse.        *)

Answer(r) == IF r.panic THEN "panic" ELSE IF r.val THEN "true" ELSE "false"

Outcome(r) == IF r.panic THEN "panic" ELSE "ok"

Objects == [words |-> words, bytes |-> bytes, sparse |-> sparse]

NoRoundTrip == [on |-> FALSE, sparse |-> MakeSparse]

GrowArgs == {IntBits(n) : n \in GrowSizes} \cup {MaxInt}

Init ==
    /\ wordBits \in {32, 64}
    /\ \E n \in NewSizes :
        /\ words = NewWords(IntBits(n))
        /\ bytes = NewBytes(IntBits(n))
        /\ last = [op |-> "New", i |-> 0, b |-> FALSE, n |-> IntBits(n),
                   W |-> "ok", B |-> "ok", S |-> "ok"]
    /\ sparse = MakeSparse
    /\ pre = Objects
    /\ members = {}
    /\ faulted = FALSE
    /\ roundTrip = NoRoundTrip

Get(i) ==
    /\ last' = [op |-> "Get", i |-> i, b |-> FALSE, n |-> Zero,
                W |-> Answer(WordsGet(words, IntBits(i))),
                B |-> Answer(BytesGet(bytes, IntBits(i))),
                S |-> IF SparseGet(sparse, IntBits(i)) THEN "true" ELSE "false"]
    /\ pre' = Objects
    /\ roundTrip' = NoRoundTrip
    /\ UNCHANGED <<wordBits, words, bytes, sparse, members, faulted>>

Set(i) ==
    LET wr == WordsSet(words, IntBits(i))
        br == BytesSet(bytes, IntBits(i))
    IN  /\ words' = wr.w
        /\ bytes' = br.s
        /\ sparse' = SparseSet(sparse, IntBits(i))
        /\ last' = [op |-> "Set", i |-> i, b |-> TRUE, n |-> Zero,
                    W |-> Outcome(wr), B |-> Outcome(br), S |-> "ok"]
        /\ pre' = Objects
        /\ members' = members \cup {i}
        /\ faulted' = (faulted \/ wr.panic \/ br.panic)
        /\ roundTrip' = NoRoundTrip
        /\ UNCHANGED wordBits

Unset(i) ==
    LET wr == WordsUnset(words, IntBits(i))
        br == BytesUnset(bytes, IntBits(i))
    IN  /\ words' = wr.w
        /\ bytes' = br.s
        /\ sparse' = SparseUnset(sparse, IntBits(i))
        /\ last' = [op |-> "Unset", i |-> i, b |-> FALSE, n |-> Zero,
                    W |-> Outcome(wr), B |-> Outcome(br), S |-> "ok"]
        /\ pre' = Objects
        /\ members' = members \ {i}
        /\ faulted' = (faulted \/ wr.panic \/ br.panic)
        /\ roundTrip' = IF last.op = "Set" /\ last.i = i
                        THEN [on |-> TRUE, sparse |-> pre.sparse]
                        ELSE NoRoundTrip
        /\ UNCHANGED wordBits

SetBool(i, b) ==
    LET wr == WordsSetBool(words, IntBits(i), b)
        br == BytesSetBool(bytes, IntBits(i), b)
    IN  /\ words' = wr.w
        /\ bytes' = br.s
        /\ sparse' = SparseSetBool(sparse, IntBits(i), b)
        /\ last' = [op |-> "SetBool", i |-> i, b |-> b, n |-> Zero,
                    W |-> Outcome(wr), B |-> Outcome(br), S |-> "ok"]
        /\ pre' = Objects
        /\ members' = IF b THEN members \cup {i} ELSE members \ {i}
        /\ faulted' = (faulted \/ wr.panic \/ br.panic)
        /\ roundTrip' = NoRoundTrip
        /\ UNCHANGED wordBits

Grow(numBits) ==
    /\ words' = WordsGrow(words, numBits)
    /\ bytes' = BytesGrow(bytes, numBits)
    /\ last' = [op |-> "Grow", i |-> 0, b |-> FALSE, n |-> numBits,
                W |-> "ok", B |-> "ok", S |-> "none"]
    /\ pre' = Objects
    /\ roundTrip' = NoRoundTrip
    /\ UNCHANGED <<wordBits, sparse, members, faulted>>

Next ==
    \/ \E i \in Indexes : Get(i)
    \/ \E i \in Indexes : Set(i)
    \/ \E i \in Indexes : Unset(i)
    \/ \E i \in Indexes, b \in BOOLEAN : SetBool(i, b)
    \/ \E numBits \in GrowArgs : Grow(numBits)

Spec == Init /\ [][Next]_vars

----------------------------------------------------------------------------
(* The calls on the variant with uint indexes.                             *)

UintIndexes == {i \in Indexes : i >= 0}

UintGrowArgs == {IntBits(n) : n \in GrowSizes}

InitUint ==
    /\ wordBits \in {32, 64}
    /\ \E n \in NewSizes :
        /\ words = UintNewWords(IntBits(n))
        /\ bytes = UintNewBytes(IntBits(n))
        /\ last = [op |-> "New", i |-> 0, b |-> FALSE, n |-> IntBits(n),
                   W |-> "ok", B |-> "ok", S |-> "ok"]
    /\ sparse = MakeSparse
    /\ pre = Objects
    /\ members = {}
    /\ faulted = FALSE
    /\ roundTrip = NoRoundTrip

GrowUint(numBits) ==
    LET wr == UintWordsGrow(words, numBits)
        br == UintBytesGrow(bytes, numBits)
    IN  /\ words' = wr.w
        /\ bytes' = br.s
        /\ last' = [op |-> "Grow", i |-> 0, b |-> FALSE, n |-> numBits,
                    W |-> Outcome(wr), B |-> Outcome(br), S |-> "none"]
        /\ pre' = Objects
        /\ faulted' = (faulted \/ wr.panic \/ br.panic)
        /\ roundTrip' = NoRoundTrip
        /\ UNCHANGED <<wordBits, sparse, members>>

NextUint ==
    \/ \E i \in UintIndexes : Get(i)
    \/ \E i \in UintIndexes : Set(i)
    \/ \E i \in UintIndexes : Unset(i)
    \/ \E i \in UintIndexes, b \in BOOLEAN : SetBool(i, b)
    \/ \E numBits \in UintGrowArgs : GrowUint(numBits)

SpecUint == InitUint /\ [][NextUint]_vars

----------------------------------------------------------------------------
(* What the claims speak of.                                               *)

GetFalse == [panic |-> FALSE, val |-> FALSE]

GetTrue == [panic |-> FALSE, val |-> TRUE]

\* The bits a Words of len words and a Bytes of len bytes can address.
WordsCapacity(w) == Len(w) * wordBits

BytesCapacity(s) == Len(s) * 8

\* Indexes read back through a Sparse: those of the words around 0 and the
\* words the negative indexes fall in.
SparseProbe == (0 - wordBits)..(TopIndex + wordBits)

\* C1: in every reachable state, right after Set(i) that did not panic
\* Get(i) is true, and right after Unset(i) that did not panic (Unset(i)
\* following Set(i) included) Get(i) is false, on the Words, the Bytes and
\* the Sparse.
SetGetRoundTrip ==
    /\ last.op = "Set" =>
        /\ last.W = "ok" => WordsGet(words, IntBits(last.i)) = GetTrue
        /\ last.B = "ok" => BytesGet(bytes, IntBits(last.i)) = GetTrue
        /\ SparseGet(sparse, IntBits(last.i))
    /\ last.op = "Unset" =>
        /\ last.W = "ok" => WordsGet(words, IntBits(last.i)) = GetFalse
        /\ last.B = "ok" => BytesGet(bytes, IntBits(last.i)) = GetFalse
        /\ ~SparseGet(sparse, IntBits(last.i))

\* Unset(TopIndex) right after Set(TopIndex), in range on all three, after a
\* Grow made room for it.
SetGetRoundTripWitness ==
    /\ roundTrip.on
    /\ last.i = TopIndex
    /\ last.W = "ok"
    /\ last.B = "ok"
    /\ members # {}

\* C2: right after Set(i) or Unset(i) that did not panic, Get(j) answers as
\* it did before the call for every j # i, in the same word or byte as i or
\* in another one.
Independence ==
    last.op \in {"Set", "Unset"} =>
        /\ last.W = "ok" =>
            \A j \in 0..(WordsCapacity(words) - 1) :
                j # last.i =>
                    WordsGet(words, IntBits(j)) = WordsGet(pre.words, IntBits(j))
        /\ last.B = "ok" =>
            \A j \in 0..(BytesCapacity(bytes) - 1) :
                j # last.i =>
                    BytesGet(bytes, IntBits(j)) = BytesGet(pre.bytes, IntBits(j))
        /\ \A j \in SparseProbe :
                j # last.i =>
                    SparseGet(sparse, IntBits(j)) = SparseGet(pre.sparse, IntBits(j))

\* Unset(0) that cleared bit 0 while bit 7 of the same byte and bit TopIndex
\* of another byte stay set.
IndependenceWitness ==
    /\ last.op = "Unset"
    /\ last.i = 0
    /\ last.B = "ok"
    /\ BytesGet(pre.bytes, IntBits(0)) = GetTrue
    /\ BytesGet(bytes, IntBits(7)) = GetTrue
    /\ BytesGet(bytes, IntBits(TopIndex)) = GetTrue

\* C3: on the objects NewWords(n), NewBytes(n) and make(Sparse) give, Get(i)
\* is false without a panic for every i in 0..n-1, and on the Sparse for
\* every i.
ZeroValue ==
    last.op = "New" =>
        /\ \A i \in 0..(Val(last.n) - 1) :
            /\ WordsGet(words, IntBits(i)) = GetFalse
            /\ BytesGet(bytes, IntBits(i)) = GetFalse
        /\ \A i \in SparseProbe : ~SparseGet(sparse, IntBits(i))

\* The objects made for 16 bits.
ZeroValueWitness == last.op = "New" /\ Val(last.n) = 16 /\ Len(bytes) = 2

\* Whether numBits bits need more than len units of width bits each: the
\* count of units is numBits / width rounded up.
IsSmall(x) == ~IsNegative(x) /\ \A k \in 4..numBytes : x[k] = 0

NeedsGrowth(numBits, width, len) ==
    IF IsSmall(numBits) THEN (Val(numBits) + width - 1) \div width > len
    ELSE ~IsNegative(numBits)

\* The last of the new bits read back after Grow(numBits) on a set that had
\* capacity bits: bit numBits - 1, or the first new bit where numBits is too
\* large to read them all.
LastNewBit(numBits, capacity) ==
    IF IsSmall(numBits) THEN Val(numBits) - 1 ELSE capacity

\* C4: right after Grow(m) with m / W rounded up above the length, every bit
\* addressable before reads as before, and every bit from the prior capacity
\* up to m - 1 reads unset without a panic, on the Words and on the Bytes.
GrowthPreservesData ==
    last.op = "Grow" =>
        /\ NeedsGrowth(last.n, wordBits, Len(pre.words)) =>
            /\ \A j \in 0..(WordsCapacity(pre.words) - 1) :
                WordsGet(words, IntBits(j)) = WordsGet(pre.words, IntBits(j))
            /\ \A j \in WordsCapacity(pre.words)
                            ..LastNewBit(last.n, WordsCapacity(pre.words)) :
                WordsGet(words, IntBits(j)) = GetFalse
        /\ NeedsGrowth(last.n, 8, Len(pre.bytes)) =>
            /\ \A j \in 0..(BytesCapacity(pre.bytes) - 1) :
                BytesGet(bytes, IntBits(j)) = BytesGet(pre.bytes, IntBits(j))
            /\ \A j \in BytesCapacity(pre.bytes)
                            ..LastNewBit(last.n, BytesCapacity(pre.bytes)) :
                BytesGet(bytes, IntBits(j)) = GetFalse

\* C5: right after Grow(m) with m / W rounded up at or below the length, the
\* slice has the length and the elements it had, on the Words and on the
\* Bytes: nothing is cut off and no bit changes.
GrowthNoOp ==
    last.op = "Grow" =>
        /\ ~NeedsGrowth(last.n, wordBits, Len(pre.words)) => words = pre.words
        /\ ~NeedsGrowth(last.n, 8, Len(pre.bytes)) => bytes = pre.bytes

\* Grow(8) on a Bytes of two bytes with bits 0 and 7 set.
GrowthNoOpWitness ==
    /\ last.op = "Grow"
    /\ last.n = IntBits(8)
    /\ Len(pre.bytes) = 2
    /\ BytesGet(bytes, IntBits(0)) = GetTrue
    /\ BytesGet(bytes, IntBits(7)) = GetTrue

\* The indexes of the word of a Sparse that index i falls in.
WordOf(i) == (i - (i % wordBits))..(i - (i % wordBits) + wordBits - 1)

\* C6: in every reachable state no entry of the Sparse holds the word 0, and
\* the map has as many entries as there are words with a member: a key is
\* present exactly when a bit of its word is set.
SparseCompact ==
    /\ \A key \in DOMAIN sparse : sparse[key] # Zero
    /\ DOMAIN sparse = {SparseKey(IntBits(i)) : i \in members}

\* Unset took the last bit of a word and its entry with it, while another
\* word keeps its entry.
SparseCompactWitness ==
    /\ last.op = "Unset"
    /\ SparseKey(IntBits(last.i)) \in DOMAIN pre.sparse
    /\ SparseKey(IntBits(last.i)) \notin DOMAIN sparse
    /\ DOMAIN sparse # {}

\* C7 as stated: after Set(i) then Unset(i) the map has no entry for the
\* word of i, Get is false for every bit of that word, and the map has as
\* many entries as before the Set(i).
SparseRoundTripRemovesWord ==
    roundTrip.on =>
        /\ SparseKey(IntBits(last.i)) \notin DOMAIN sparse
        /\ \A j \in WordOf(last.i) : ~SparseGet(sparse, IntBits(j))
        /\ Cardinality(DOMAIN sparse) = Cardinality(DOMAIN roundTrip.sparse)

\* C7 as amended: after Set(i) then Unset(i) bit i is unset and every other
\* bit of its word is as before the Set(i); the map has an entry for the
\* word of i exactly when another bit of that word is set, and without one
\* Get is false for every bit of the word; the map has as many entries as
\* before the Set(i), or one less when i was the only bit of its word set
\* before the Set(i).
SparseRoundTrip ==
    roundTrip.on =>
        LET key    == SparseKey(IntBits(last.i))
            before == roundTrip.sparse
            others == {j \in WordOf(last.i) \ {last.i} :
                            SparseGet(before, IntBits(j))}
        IN  /\ ~SparseGet(sparse, IntBits(last.i))
            /\ \A j \in WordOf(last.i) \ {last.i} :
                    SparseGet(sparse, IntBits(j)) = (j \in others)
            /\ key \in DOMAIN sparse <=> others # {}
            /\ Cardinality(DOMAIN sparse) =
                    Cardinality(DOMAIN before)
                        - (IF others = {} /\ key \in DOMAIN before THEN 1 ELSE 0)

\* Set(7) then Unset(7) while bit 0 of the same word is set: the entry stays.
SparseRoundTripWitness ==
    /\ roundTrip.on
    /\ last.i = 7
    /\ SparseGet(sparse, IntBits(0))
    /\ SparseKey(IntBits(7)) \in DOMAIN sparse

\* The bits all three objects can address.
CommonCapacity ==
    IF WordsCapacity(words) < BytesCapacity(bytes)
    THEN WordsCapacity(words) ELSE BytesCapacity(bytes)

\* C8: as long as no Set, Unset or SetBool has panicked, after every call
\* the Words, the Bytes and the Sparse give the same Get(i) for every i they
\* can all address, and it is whether i is a member of the set of indexes;
\* after Set(0), Set(7), Unset(0), Set(63) that is true for 7 and 63 only.
CrossImplementation ==
    ~faulted =>
        \A i \in 0..(CommonCapacity - 1) :
            /\ WordsGet(words, IntBits(i)) = [panic |-> FALSE, val |-> i \in members]
            /\ BytesGet(bytes, IntBits(i)) = [panic |-> FALSE, val |-> i \in members]
            /\ SparseGet(sparse, IntBits(i)) = (i \in members)

\* The state Set(0), Set(7), Unset(0), Set(TopIndex) lead to on objects that
\* can address TopIndex.
CrossImplementationWitness ==
    /\ ~faulted
    /\ last.op = "Set"
    /\ last.i = TopIndex
    /\ members = {7, TopIndex}
    /\ CommonCapacity > TopIndex
    /\ ~SparseGet(pre.sparse, IntBits(TopIndex))

\* Whether index i is one no Words or Bytes of len units of width bits each
\* can address: a negative i, or one whose unit is at or past len.
OutOfRange(i, width, len) == i < 0 \/ i \div width >= len

\* C9: Get, Set, Unset and SetBool with an index outside the Words or the
\* Bytes panic and leave every word or byte and the length as they were; on
\* the Sparse no call panics.
OutOfRangePanics ==
    last.op \in {"Get", "Set", "Unset", "SetBool"} =>
        /\ OutOfRange(last.i, wordBits, Len(pre.words)) =>
                last.W = "panic" /\ words = pre.words
        /\ OutOfRange(last.i, 8, Len(pre.bytes)) =>
                last.B = "panic" /\ bytes = pre.bytes
        /\ last.S # "panic"

\* Set(TopIndex) on a Words and a Bytes too short for it, with bits set.
OutOfRangePanicsWitness ==
    /\ last.op = "Set"
    /\ last.i = TopIndex
    /\ last.W = "panic"
    /\ last.B = "panic"
    /\ Len(words) > 0
    /\ members # {TopIndex}

\* The sum of 2^(i - base) over the indexes i of a set.
RECURSIVE ByteOf(_, _)
ByteOf(indexes, base) ==
    IF indexes = {} THEN 0
    ELSE LET i == CHOOSE x \in indexes : TRUE
         IN  2^(i - base) + ByteOf(indexes \ {i}, base)

\* C10: in every reachable state Get(i) on the Bytes is bit i mod 8, counted
\* from the least significant, of byte i div 8; as long as no call has
\* panicked byte k is the sum of 2^(i - 8k) over the members i in
\* 8k..8k+7, and so the byte 129 after NewBytes(8), Set(0), Set(7).
BytesLayout ==
    /\ \A i \in 0..(BytesCapacity(bytes) - 1) :
            BytesGet(bytes, IntBits(i)).val
                = ((bytes[(i \div 8) + 1] \div 2^(i % 8)) % 2 = 1)
    /\ ~faulted =>
            \A k \in 0..(Len(bytes) - 1) :
                bytes[k + 1] = ByteOf(members \cap ((8 * k)..(8 * k + 7)), 8 * k)

\* The single byte 129 right after Set(7) on a Bytes of one byte.
BytesLayoutWitness ==
    /\ ~faulted
    /\ last.op = "Set"
    /\ last.i = 7
    /\ members = {0, 7}
    /\ bytes = <<129>>

\* C11: in every reachable state, on the Words, the Bytes and the Sparse,
\* SetBool(i, true) leaves the storage Set(i) leaves, or panics as it does,
\* and SetBool(i, false) leaves the storage Unset(i) leaves, or panics as
\* it does: so for the SetBool call that led to the state, taken on the
\* objects as they were before it.
SetBoolEquivalence ==
    last.op = "SetBool" =>
        LET i  == IntBits(last.i)
            wr == IF last.b THEN WordsSet(pre.words, i)
                            ELSE WordsUnset(pre.words, i)
            br == IF last.b THEN BytesSet(pre.bytes, i)
                            ELSE BytesUnset(pre.bytes, i)
            sr == IF last.b THEN SparseSet(pre.sparse, i)
                            ELSE SparseUnset(pre.sparse, i)
        IN  /\ words = wr.w /\ last.W = Outcome(wr)
            /\ bytes = br.s /\ last.B = Outcome(br)
            /\ sparse = sr /\ last.S = "ok"

\* SetBool(TopIndex, true) that set a bit on all three objects, bit 0 being
\* set already.
SetBoolEquivalenceWitness ==
    /\ last.op = "SetBool"
    /\ last.b
    /\ last.i = TopIndex
    /\ last.W = "ok"
    /\ last.B = "ok"
    /\ WordsGet(pre.words, IntBits(TopIndex)) = GetFalse
    /\ WordsGet(words, IntBits(TopIndex)) = GetTrue
    /\ BytesGet(bytes, IntBits(0)) = GetTrue
    /\ SparseGet(sparse, IntBits(TopIndex))

\* x < y for two uints: by the most significant byte that differs.
UnsignedLess(x, y) ==
    \E k \in 1..numBytes :
        /\ x[k] < y[k]
        /\ \A j \in (k + 1)..numBytes : x[j] = y[j]

\* numBits / 2^shift rounded up, as a uint and without wrapping around: the
\* quotient, and one more when a bit under the mask is left over.
RoundedUp(numBits, mask, shift) ==
    Add(Shr(numBits, shift),
        IF And(numBits, IntBits(mask)) = Zero THEN Zero ELSE IntBits(1))

\* C12: in the variant with uint indexes, right after Grow(numBits) on the
\* Words and on the Bytes: the call did not panic; where numBits rounded up
\* to whole words (bytes) is below the length the slice had, the slice is
\* as it was, length and elements; otherwise its length is numBits rounded
\* up to whole words (bytes).
UintGrowLargeEnough ==
    last.op = "Grow" =>
        LET wordsTarget == RoundedUp(last.n, wordModMask, wordShift)
            bytesTarget == RoundedUp(last.n, byteModMask, byteShift)
        IN  /\ last.W = "ok"
            /\ last.B = "ok"
            /\ IF UnsignedLess(wordsTarget, IntBits(Len(pre.words)))
               THEN words = pre.words
               ELSE IntBits(Len(words)) = wordsTarget
            /\ IF UnsignedLess(bytesTarget, IntBits(Len(pre.bytes)))
               THEN bytes = pre.bytes
               ELSE IntBits(Len(bytes)) = bytesTarget

\* The larger of two lengths.
Larger(x, y) == IF UnsignedLess(x, y) THEN y ELSE x

\* C13: the length of the Words and of the Bytes is the largest of
\* numBits / W rounded up over NewWords(numBits) or NewBytes(numBits) and
\* the Grow(numBits) calls so far, W the bits of a word or 8, numBits never
\* negative.  Call by call: New leaves exactly numBits / W rounded up zero
\* units; Grow leaves the larger of the length before it and numBits / W
\* rounded up, the units it had in their places and zero units after them;
\* Get, Set, Unset and SetBool leave the length as it was.
DenseLength ==
    LET wordsAsked == RoundedUp(last.n, wordModMask, wordShift)
        bytesAsked == RoundedUp(last.n, byteModMask, byteShift)
    IN  /\ last.op = "New" =>
            /\ IntBits(Len(words)) = wordsAsked
            /\ IntBits(Len(bytes)) = bytesAsked
            /\ \A k \in 1..Len(words) : words[k] = Zero
            /\ \A k \in 1..Len(bytes) : bytes[k] = 0
        /\ last.op = "Grow" =>
            /\ IntBits(Len(words)) = Larger(IntBits(Len(pre.words)), wordsAsked)
            /\ IntBits(Len(bytes)) = Larger(IntBits(Len(pre.bytes)), bytesAsked)
            /\ SubSeq(words, 1, Len(pre.words)) = pre.words
            /\ SubSeq(bytes, 1, Len(pre.bytes)) = pre.bytes
            /\ \A k \in (Len(pre.words) + 1)..Len(words) : words[k] = Zero
            /\ \A k \in (Len(pre.bytes) + 1)..Len(bytes) : bytes[k] = 0
        /\ last.op \in {"Get", "Set", "Unset", "SetBool"} =>
            /\ Len(words) = Len(pre.words)
            /\ Len(bytes) = Len(pre.bytes)

====
